---- MODULE Spec2Model ----
(***************************************************************************)
(* The training / evaluation loop `train(model, train_loader, test_loader, *)
(* epochs)` of ConvNetsPyTorch.ipynb (notebook lines 167-237), as a state  *)
(* machine.  One call of train is one behaviour.  The model, the loss      *)
(* criterion and the optimizer are opaque framework objects: what a call   *)
(* into them gives back (a number of correct predictions, None, or an      *)
(* exception) is an input of the step that makes the call.                 *)
(*                                                                         *)
(* Numbers that the code holds as floats are held as exact fractions       *)
(* <<numerator, denominator>>.                                             *)
(***************************************************************************)
EXTENDS Integers, Sequences, FiniteSets

\* ------------------------------------------------------------- bounds
MaxEpochs == 2
MaxExamples == 2
BatchSize == 1

VARIABLES
    pc,             \* where the call is: idle, training, evaluating, done, aborted, raised
    epochs,         \* the argument `epochs`
    nTrain,         \* len(train_loader.dataset)
    nTest,          \* len(test_loader.dataset)
    epoch,          \* iterations of `for epoch in range(epochs)` completed
    ti,             \* index of the next batch of the training pass
    ei,             \* index of the next batch of the evaluation pass
    train_loss, train_correct, train_total, train_acc,
    test_loss, test_correct, test_total, test_acc,
    history,        \* the dict `history`
    params,         \* the model parameters, as the number of optimizer.step() applied
    mode,           \* model.training: "train" after model.train(), "eval" after model.eval()
    stdout,         \* the lines printed so far
    ret,            \* what the call gave its caller: pending, history, None, exception
    exc             \* the exception raised, if any: its type and the phase it was raised in

vars == <<pc, epochs, nTrain, nTest, epoch, ti, ei,
          train_loss, train_correct, train_total, train_acc,
          test_loss, test_correct, test_total, test_acc,
          history, params, mode, stdout, ret, exc>>

\* ------------------------------------------------------------- data
Keys == {"train_loss", "train_acc", "test_loss", "test_acc", "val_acc", "val_loss"}

EmptyHistory == [k \in Keys |-> <<>>]

NoException == [type |-> "none", at |-> "none"]

Zero == <<0, 1>>

\* x += l, for a fraction x and an integer l
AddTo(x, l) == <<x[1] + l * x[2], x[2]>>

\* x /= n, for a fraction x and an integer n # 0
DivBy(x, n) == <<x[1], x[2] * n>>

\* 100. * c / t, for integers c and t # 0
Percent(c, t) == <<100 * c, t>>

\* criterion(output, target).item() for a batch of `size` examples of which c
\* are classified correctly.  CrossEntropyLoss is a framework object; it is
\* held here as a non-negative quantity that is 0 on a batch classified
\* perfectly: the number of misclassified examples.
criterion(size, c) == size - c

NumBatches(n) == (n + BatchSize - 1) \div BatchSize

\* The batches a loader draws from a dataset of n examples, as their sizes
\* (target.size(0)): full batches, then the remainder.
Batches(n) ==
    [i \in 1..NumBatches(n) |->
        IF i * BatchSize <= n THEN BatchSize ELSE n - (i - 1) * BatchSize]

train_loader == Batches(nTrain)

test_loader == Batches(nTest)

Line(kind) == [kind |-> kind, epoch |-> epoch + 1, of |-> epochs]

Count(kind) == Cardinality({i \in 1..Len(stdout) : stdout[i].kind = kind})

\* ------------------------------------------------------------- exceptions
\* Faulty variant of Raise: the handler returns history instead of None.
Raise_ReturnsHistory(type) ==
    /\ exc' = [type |-> type, at |-> pc]
    /\ stdout' = Append(stdout, Line("error"))
    /\ ret' = "history"
    /\ pc' = "aborted"

\* Faulty variant of Raise: `except RuntimeError`, which lets an arithmetic
\* error through.
Raise_OnlyRuntimeError(type) ==
    /\ exc' = [type |-> type, at |-> pc]
    /\ IF type = "ZeroDivisionError"
       THEN /\ stdout' = stdout
            /\ ret' = "exception"
            /\ pc' = "raised"
       ELSE /\ stdout' = Append(stdout, Line("error"))
            /\ ret' = "None"
            /\ pc' = "aborted"

\* Faulty variant of Raise: the handler prints nothing.
Raise_Silent(type) ==
    /\ exc' = [type |-> type, at |-> pc]
    /\ stdout' = stdout
    /\ ret' = "None"
    /\ pc' = "aborted"

\* An exception raised inside the try block: the handler prints one line and
\* returns None.
Raise(type) ==
    /\ exc' = [type |-> type, at |-> pc]
    /\ stdout' = Append(stdout, Line("error"))
    /\ ret' = "None"
    /\ pc' = "aborted"

\* An exception raised before the try block: nothing catches it.
Propagate(type) ==
    /\ exc' = [type |-> type, at |-> pc]
    /\ stdout' = stdout
    /\ ret' = "exception"
    /\ pc' = "raised"

\* ------------------------------------------------------------- the loop head
\* Faulty variant of EnterEpochOrReturn: the training counters are set once,
\* before the loop, and not again.
EnterEpochOrReturn_NoReset(e) ==
    /\ epoch' = e
    /\ IF e < epochs
       THEN /\ pc' = "training"
            /\ mode' = "train"
            /\ UNCHANGED <<train_loss, train_correct, train_total>>
            /\ ti' = 1
            /\ ret' = ret
       ELSE /\ pc' = "done"
            /\ ret' = "history"
            /\ UNCHANGED <<mode, train_loss, train_correct, train_total, ti>>

\* Faulty variant of EnterEpochOrReturn: range(epochs + 1).
EnterEpochOrReturn_OneMore(e) ==
    /\ epoch' = e
    /\ IF e < epochs + 1
       THEN /\ pc' = "training"
            /\ mode' = "train"
            /\ train_loss' = Zero
            /\ train_correct' = 0
            /\ train_total' = 0
            /\ ti' = 1
            /\ ret' = ret
       ELSE /\ pc' = "done"
            /\ ret' = "history"
            /\ UNCHANGED <<mode, train_loss, train_correct, train_total, ti>>

\* `for epoch in range(epochs)` with e iterations done: either the next
\* iteration starts (model.train(), the training counters restart), or the
\* loop is over and history is returned.
EnterEpochOrReturn(e) ==
    /\ epoch' = e
    /\ IF e < epochs
       THEN /\ pc' = "training"
            /\ mode' = "train"
            /\ train_loss' = Zero
            /\ train_correct' = 0
            /\ train_total' = 0
            /\ ti' = 1
            /\ ret' = ret
       ELSE /\ pc' = "done"
            /\ ret' = "history"
            /\ UNCHANGED <<mode, train_loss, train_correct, train_total, ti>>

\* ------------------------------------------------------------- initial state
Init ==
    /\ pc = "idle"
    /\ epochs \in 0..MaxEpochs
    /\ nTrain \in 0..MaxExamples
    /\ nTest \in 0..MaxExamples
    /\ epoch = 0
    /\ ti = 1
    /\ ei = 1
    /\ train_loss = Zero /\ train_correct = 0 /\ train_total = 0 /\ train_acc = Zero
    /\ test_loss = Zero /\ test_correct = 0 /\ test_total = 0 /\ test_acc = Zero
    /\ history = EmptyHistory
    /\ params = 0
    /\ mode = "train"
    /\ stdout = <<>>
    /\ ret = "pending"
    /\ exc = NoException

\* ------------------------------------------------------------- setup
\* device, model.to(device), optimizer, criterion, history = {...}; then the
\* try block is entered and the loop head is reached.
Setup ==
    /\ pc = "idle"
    /\ history' = EmptyHistory
    /\ EnterEpochOrReturn(0)
    /\ UNCHANGED <<epochs, nTrain, nTest, ei, train_acc,
                   test_loss, test_correct, test_total, test_acc,
                   params, stdout, exc>>

\* model.to(device) or optim.Adam(model.parameters()) raises: the statements
\* stand before `try`.
SetupFail ==
    /\ pc = "idle"
    /\ Propagate("Exception")
    /\ UNCHANGED <<epochs, nTrain, nTest, epoch, ti, ei,
                   train_loss, train_correct, train_total, train_acc,
                   test_loss, test_correct, test_total, test_acc,
                   history, params, mode>>

\* ------------------------------------------------------------- training phase
\* One batch of the training pass whose forward pass and loss are well
\* defined: zero_grad, forward, loss, backward, optimizer.step(), then the
\* running sums.  c is (predicted == target).sum().item().
TrainBatchOk(c) ==
    /\ pc = "training"
    /\ ti <= Len(train_loader)
    /\ c <= train_loader[ti]
    /\ params' = params + 1
    /\ train_loss' = AddTo(train_loss, criterion(train_loader[ti], c))
    /\ train_total' = train_total + train_loader[ti]
    /\ train_correct' = train_correct + c
    /\ ti' = ti + 1
    /\ UNCHANGED <<pc, epochs, nTrain, nTest, epoch, ei, train_acc,
                   test_loss, test_correct, test_total, test_acc,
                   history, mode, stdout, ret, exc>>

\* Faulty variant of TrainBatchSkip: the None check stands after
\* optimizer.step().
TrainBatchSkip_AfterStep(what) ==
    /\ pc = "training"
    /\ ti <= Len(train_loader)
    /\ stdout' = Append(stdout, Line("warning"))
    /\ params' = params + 1
    /\ ti' = ti + 1
    /\ UNCHANGED <<pc, epochs, nTrain, nTest, epoch, ei,
                   train_loss, train_correct, train_total, train_acc,
                   test_loss, test_correct, test_total, test_acc,
                   history, mode, ret, exc>>

\* One batch of the training pass for which model(data) is None, or
\* criterion(output, target) is None: a warning, then `continue`.
TrainBatchSkip(what) ==
    /\ pc = "training"
    /\ ti <= Len(train_loader)
    /\ stdout' = Append(stdout, Line("warning"))
    /\ ti' = ti + 1
    /\ UNCHANGED <<pc, epochs, nTrain, nTest, epoch, ei,
                   train_loss, train_correct, train_total, train_acc,
                   test_loss, test_correct, test_total, test_acc,
                   history, params, mode, ret, exc>>

\* Any statement of the training phase raises (the loader, .to(device), the
\* forward pass, the criterion, backward, the optimizer).
TrainFail ==
    /\ pc = "training"
    /\ Raise("Exception")
    /\ UNCHANGED <<epochs, nTrain, nTest, epoch, ti, ei,
                   train_loss, train_correct, train_total, train_acc,
                   test_loss, test_correct, test_total, test_acc,
                   history, params, mode>>

\* Faulty variant of EndTraining: the evaluation is indented into the batch
\* loop, so it may start before the training pass is over.
EndTraining_Early ==
    /\ pc = "training"
    /\ ti >= 1
    /\ IF nTrain = 0 \/ train_total = 0
       THEN /\ Raise("ZeroDivisionError")
            /\ train_loss' = IF nTrain = 0 THEN train_loss ELSE DivBy(train_loss, nTrain)
            /\ UNCHANGED <<train_acc, history, mode, test_loss, test_correct,
                           test_total, ei>>
       ELSE /\ train_loss' = DivBy(train_loss, nTrain)
            /\ train_acc' = Percent(train_correct, train_total)
            /\ history' = [history EXCEPT
                   !["train_loss"] = Append(@, DivBy(train_loss, nTrain)),
                   !["train_acc"] = Append(@, Percent(train_correct, train_total))]
            /\ mode' = "eval"
            /\ test_loss' = Zero
            /\ test_correct' = 0
            /\ test_total' = 0
            /\ ei' = 1
            /\ pc' = "evaluating"
            /\ UNCHANGED <<stdout, ret, exc>>
    /\ UNCHANGED <<epochs, nTrain, nTest, epoch, ti, train_correct, train_total,
                   test_acc, params>>

\* The training pass is over: the epoch's training loss and accuracy are
\* derived and appended, then model.eval() and the evaluation counters
\* restart.  len(train_loader.dataset) = 0 or train_total = 0 raises
\* ZeroDivisionError, the first after nothing was assigned, the second after
\* train_loss was divided.
EndTraining ==
    /\ pc = "training"
    /\ ti > Len(train_loader)
    /\ IF nTrain = 0 \/ train_total = 0
       THEN /\ Raise("ZeroDivisionError")
            /\ train_loss' = IF nTrain = 0 THEN train_loss ELSE DivBy(train_loss, nTrain)
            /\ UNCHANGED <<train_acc, history, mode, test_loss, test_correct,
                           test_total, ei>>
       ELSE /\ train_loss' = DivBy(train_loss, nTrain)
            /\ train_acc' = Percent(train_correct, train_total)
            /\ history' = [history EXCEPT
                   !["train_loss"] = Append(@, DivBy(train_loss, nTrain)),
                   !["train_acc"] = Append(@, Percent(train_correct, train_total))]
            /\ mode' = "eval"
            /\ test_loss' = Zero
            /\ test_correct' = 0
            /\ test_total' = 0
            /\ ei' = 1
            /\ pc' = "evaluating"
            /\ UNCHANGED <<stdout, ret, exc>>
    /\ UNCHANGED <<epochs, nTrain, nTest, epoch, ti, train_correct, train_total,
                   test_acc, params>>

\* ------------------------------------------------------------- evaluation phase
\* Faulty variant of EvalBatchOk: the evaluation batch also runs
\* optimizer.step().
EvalBatchOk_Steps(c) ==
    /\ pc = "evaluating"
    /\ ei <= Len(test_loader)
    /\ c <= test_loader[ei]
    /\ params' = params + 1
    /\ test_loss' = AddTo(test_loss, criterion(test_loader[ei], c))
    /\ test_total' = test_total + test_loader[ei]
    /\ test_correct' = test_correct + c
    /\ ei' = ei + 1
    /\ UNCHANGED <<pc, epochs, nTrain, nTest, epoch, ti,
                   train_loss, train_correct, train_total, train_acc, test_acc,
                   history, mode, stdout, ret, exc>>

\* One batch of the evaluation pass, under torch.no_grad(): forward, loss,
\* the running sums.  No backward pass and no optimizer step.
EvalBatchOk(c) ==
    /\ pc = "evaluating"
    /\ ei <= Len(test_loader)
    /\ c <= test_loader[ei]
    /\ test_loss' = AddTo(test_loss, criterion(test_loader[ei], c))
    /\ test_total' = test_total + test_loader[ei]
    /\ test_correct' = test_correct + c
    /\ ei' = ei + 1
    /\ UNCHANGED <<pc, epochs, nTrain, nTest, epoch, ti,
                   train_loss, train_correct, train_total, train_acc, test_acc,
                   history, params, mode, stdout, ret, exc>>

EvalBatchSkip(what) ==
    /\ pc = "evaluating"
    /\ ei <= Len(test_loader)
    /\ stdout' = Append(stdout, Line("warning"))
    /\ ei' = ei + 1
    /\ UNCHANGED <<pc, epochs, nTrain, nTest, epoch, ti,
                   train_loss, train_correct, train_total, train_acc,
                   test_loss, test_correct, test_total, test_acc,
                   history, params, mode, ret, exc>>

\* Any statement of the evaluation phase raises.
EvalFail ==
    /\ pc = "evaluating"
    /\ Raise("Exception")
    /\ UNCHANGED <<epochs, nTrain, nTest, epoch, ti, ei,
                   train_loss, train_correct, train_total, train_acc,
                   test_loss, test_correct, test_total, test_acc,
                   history, params, mode>>

\* Faulty variant of EndEval: the evaluation loss is appended under val_loss.
EndEval_WrongKey ==
    /\ pc = "evaluating"
    /\ ei > Len(test_loader)
    /\ IF nTest = 0 \/ test_total = 0
       THEN /\ Raise("ZeroDivisionError")
            /\ test_loss' = IF nTest = 0 THEN test_loss ELSE DivBy(test_loss, nTest)
            /\ UNCHANGED <<test_acc, history, mode, epoch, ti,
                           train_loss, train_correct, train_total>>
       ELSE /\ test_loss' = DivBy(test_loss, nTest)
            /\ test_acc' = Percent(test_correct, test_total)
            /\ history' = [history EXCEPT
                   !["val_loss"] = Append(@, DivBy(test_loss, nTest)),
                   !["test_acc"] = Append(@, Percent(test_correct, test_total))]
            /\ stdout' = Append(stdout, Line("progress"))
            /\ exc' = exc
            /\ EnterEpochOrReturn(epoch + 1)
    /\ UNCHANGED <<epochs, nTrain, nTest, ei, train_acc, test_correct, test_total,
                   params>>

\* Faulty variant of EndEval: the accuracy is taken over train_total.
EndEval_TrainTotal ==
    /\ pc = "evaluating"
    /\ ei > Len(test_loader)
    /\ IF nTest = 0 \/ test_total = 0
       THEN /\ Raise("ZeroDivisionError")
            /\ test_loss' = IF nTest = 0 THEN test_loss ELSE DivBy(test_loss, nTest)
            /\ UNCHANGED <<test_acc, history, mode, epoch, ti,
                           train_loss, train_correct, train_total>>
       ELSE /\ test_loss' = DivBy(test_loss, nTest)
            /\ test_acc' = Percent(test_correct, train_total)
            /\ history' = [history EXCEPT
                   !["test_loss"] = Append(@, DivBy(test_loss, nTest)),
                   !["test_acc"] = Append(@, Percent(test_correct, train_total))]
            /\ stdout' = Append(stdout, Line("progress"))
            /\ exc' = exc
            /\ EnterEpochOrReturn(epoch + 1)
    /\ UNCHANGED <<epochs, nTrain, nTest, ei, train_acc, test_correct, test_total,
                   params>>

\* The evaluation pass is over: the epoch's evaluation loss and accuracy are
\* derived and appended, the progress line is printed, and the loop head is
\* reached with one more epoch done.
EndEval ==
    /\ pc = "evaluating"
    /\ ei > Len(test_loader)
    /\ IF nTest = 0 \/ test_total = 0
       THEN /\ Raise("ZeroDivisionError")
            /\ test_loss' = IF nTest = 0 THEN test_loss ELSE DivBy(test_loss, nTest)
            /\ UNCHANGED <<test_acc, history, mode, epoch, ti,
                           train_loss, train_correct, train_total>>
       ELSE /\ test_loss' = DivBy(test_loss, nTest)
            /\ test_acc' = Percent(test_correct, test_total)
            /\ history' = [history EXCEPT
                   !["test_loss"] = Append(@, DivBy(test_loss, nTest)),
                   !["test_acc"] = Append(@, Percent(test_correct, test_total))]
            /\ stdout' = Append(stdout, Line("progress"))
            /\ exc' = exc
            /\ EnterEpochOrReturn(epoch + 1)
    /\ UNCHANGED <<epochs, nTrain, nTest, ei, train_acc, test_correct, test_total,
                   params>>

\* ------------------------------------------------------------- specification
Skips == {"output is None", "loss is None"}

Next ==
    \/ Setup
    \/ SetupFail
    \/ \E c \in 0..BatchSize : TrainBatchOk(c)
    \/ \E what \in Skips : TrainBatchSkip(what)
    \/ TrainFail
    \/ EndTraining
    \/ \E c \in 0..BatchSize : EvalBatchOk(c)
    \/ \E what \in Skips : EvalBatchSkip(what)
    \/ EvalFail
    \/ EndEval

Spec == Init /\ [][Next]_vars

\* ------------------------------------------------------------- properties
Last(s) == s[Len(s)]

Metrics == {"train_loss", "train_acc", "test_loss", "test_acc"}

\* The training metrics of the epoch under way are already in history.
TrainingAppended ==
    \/ pc = "evaluating"
    \/ pc = "aborted" /\ exc.at = "evaluating"

\* C1 as stated: every sequence of history, under every key, is as long as the
\* number of epochs completed so far.
C1_Original ==
    \A k \in DOMAIN history : Len(history[k]) = epoch

\* C1, amended: test_loss and test_acc are as long as the number of epochs
\* completed; train_loss and train_acc are one longer from the end of an
\* epoch's training phase until the end (or the abort) of its evaluation
\* phase; val_acc and val_loss stay empty.
C1_HistoryLengths ==
    /\ DOMAIN history = Keys
    /\ Len(history["test_loss"]) = epoch
    /\ Len(history["test_acc"]) = epoch
    /\ Len(history["train_loss"]) = epoch + (IF TrainingAppended THEN 1 ELSE 0)
    /\ Len(history["train_acc"]) = epoch + (IF TrainingAppended THEN 1 ELSE 0)
    /\ history["val_acc"] = <<>>
    /\ history["val_loss"] = <<>>

C1_Witness ==
    /\ pc = "evaluating"
    /\ epoch = 1
    /\ Len(history["train_loss"]) = 2
    /\ Len(history["test_loss"]) = 1

\* C2 as stated: whenever an exception has been raised during the run, in
\* setup, training or evaluation, the call has returned None.
C2_Original ==
    exc.type # "none" => ret = "None"

\* C2, amended: an exception raised in a training or an evaluation phase
\* aborts the run, which returns None; an exception raised in setup reaches
\* the caller; history is returned only by a run in which nothing was raised.
C2_AbortReturnsNone ==
    /\ exc.type # "none" => exc.at \in {"idle", "training", "evaluating"}
    /\ (exc.type # "none" /\ exc.at \in {"training", "evaluating"})
           => (pc = "aborted" /\ ret = "None")
    /\ (exc.type # "none" /\ exc.at = "idle")
           => (pc = "raised" /\ ret = "exception")
    /\ ret = "history" => (pc = "done" /\ exc.type = "none")

C2_Witness ==
    /\ pc = "aborted"
    /\ ret = "None"
    /\ exc.at = "evaluating"
    /\ epoch = 1
    /\ Len(history["test_acc"]) = 1

\* C3: a run that ends successfully returns history with exactly `epochs`
\* entries in each of train_loss, train_acc, test_loss and test_acc.
C3_SuccessLengths ==
    pc = "done" =>
        /\ ret = "history"
        /\ \A k \in Metrics : Len(history[k]) = epochs

C3_Witness ==
    /\ pc = "done"
    /\ ret = "history"
    /\ epochs = 2
    /\ Len(history["train_loss"]) = 2

\* C4: a ZeroDivisionError raised while deriving an epoch's metrics from a
\* pass whose batches were all skipped never reaches the caller: the run is
\* aborted, one error line is printed and None is returned; and no metric
\* with a zero denominator is ever appended.
C4_ZeroDivisionCaught ==
    /\ exc.type = "ZeroDivisionError" =>
           /\ pc = "aborted"
           /\ ret = "None"
           /\ Last(stdout).kind = "error"
    /\ \A k \in Metrics : \A i \in 1..Len(history[k]) : history[k][i][2] # 0

C4_Witness ==
    /\ exc.type = "ZeroDivisionError"
    /\ exc.at = "training"
    /\ nTrain = 2
    /\ train_total = 0
    /\ Count("warning") = 2

\* C5: no step taken in an evaluation phase changes the model parameters.
C5_EvalFrame ==
    [][pc = "evaluating" => params' = params]_vars

C5_Witness ==
    /\ pc = "evaluating"
    /\ ei = 3
    /\ test_total = 2
    /\ params >= 1

C7_Original ==
    /\ pc = "done" => (Count("progress") = epochs /\ Count("error") = 0)
    /\ exc.type # "none" => (Count("error") = 1 /\ Last(stdout).kind = "error")

\* C7, amended: the progress lines printed are one per completed epoch, in
\* order; a run that succeeds has printed `epochs` of them and no error line;
\* a run aborted in a training or an evaluation phase has printed exactly one
\* error line, which is its last line; a run whose setup raised has printed
\* nothing.
C7_PrintedLines ==
    /\ Count("progress") = epoch
    /\ Count("progress") = Len(history["test_acc"])
    /\ \A i \in 1..Len(stdout) :
           stdout[i].kind = "progress" =>
               stdout[i].epoch = Cardinality({j \in 1..i : stdout[j].kind = "progress"})
    /\ pc = "done" => (Count("progress") = epochs /\ Count("error") = 0)
    /\ pc = "aborted" => (Count("error") = 1 /\ Last(stdout).kind = "error")
    /\ pc # "aborted" => Count("error") = 0
    /\ pc = "raised" => stdout = <<>>

C7_Witness ==
    /\ pc = "aborted"
    /\ Count("progress") = 1
    /\ Count("error") = 1
    /\ Last(stdout).kind = "error"

\* C8: a step that skips a batch (it prints a warning) leaves the running
\* sums, the model parameters and history alone, stays in the same phase of
\* the same epoch and moves on to the next batch.
C8_SkipFrame ==
    [][(/\ Len(stdout') = Len(stdout) + 1
        /\ Last(stdout').kind = "warning")
       =>
       (/\ pc \in {"training", "evaluating"}
        /\ pc' = pc
        /\ epoch' = epoch
        /\ params' = params
        /\ history' = history
        /\ UNCHANGED <<train_loss, train_correct, train_total>>
        /\ UNCHANGED <<test_loss, test_correct, test_total>>
        /\ UNCHANGED <<ret, exc>>
        /\ pc = "training" => (ti' = ti + 1 /\ ei' = ei)
        /\ pc = "evaluating" => (ei' = ei + 1 /\ ti' = ti))]_vars

C8_Witness ==
    /\ pc = "training"
    /\ epoch = 0
    /\ ti = 3
    /\ Count("warning") = 1
    /\ train_total = 1
    /\ params = 1

\* The steps the state machine allows, given where an idle call may go.
Transition(fromIdle) ==
    /\ pc = "idle" =>
           /\ pc' \in fromIdle
           /\ pc' = "training" => (epochs > 0 /\ epoch' = 0 /\ ti' = 1)
           /\ pc' = "done" => epochs = 0
    /\ (pc = "training" /\ pc' = pc) =>
           (ti <= Len(train_loader) /\ ti' = ti + 1 /\ epoch' = epoch)
    /\ (pc = "training" /\ pc' # pc) =>
           \/ pc' = "evaluating" /\ ti > Len(train_loader) /\ ei' = 1 /\ epoch' = epoch
           \/ pc' = "aborted" /\ exc'.type # "none"
    /\ (pc = "evaluating" /\ pc' = pc) =>
           (ei <= Len(test_loader) /\ ei' = ei + 1 /\ epoch' = epoch)
    /\ (pc = "evaluating" /\ pc' # pc) =>
           \/ /\ pc' \in {"training", "done"}
              /\ ei > Len(test_loader)
              /\ epoch' = epoch + 1
              /\ pc' = "training" => ti' = 1
           \/ pc' = "aborted" /\ exc'.type # "none"
    /\ pc' = "done" => epoch' = epochs
    /\ pc' = "training" => epoch' < epochs
    /\ pc \notin {"done", "aborted", "raised"}

\* C9 as stated: Idle -> (Training -> Evaluating) x epochs -> Done, and the
\* only other way a run ends is Aborted, entered from Training or Evaluating.
C9_Original ==
    [][Transition({"training", "done"})]_vars

\* C9, amended: as stated, except that a run also ends, from Idle, when setup
\* raises: the exception reaches the caller.
C9_StateMachine ==
    [][Transition({"training", "done", "raised"})]_vars

C9_Witness ==
    /\ pc = "training"
    /\ epoch = 1
    /\ ti = 2
    /\ Len(history["test_loss"]) = 1

\* C10: the metrics appended for an epoch are that epoch's sums: the loss sum
\* over the number of examples of the partition, and 100 x correct / total;
\* the sums restart from 0 with every pass.
C10_Derivation ==
    /\ (pc = "training" /\ ti = 1) =>
           (train_loss = Zero /\ train_correct = 0 /\ train_total = 0)
    /\ (pc = "evaluating" /\ ei = 1) =>
           (test_loss = Zero /\ test_correct = 0 /\ test_total = 0)
    /\ train_total <= nTrain
    /\ test_total <= nTest
    /\ pc = "evaluating" =>
           /\ Last(history["train_loss"]) = <<train_total - train_correct, nTrain>>
           /\ Last(history["train_acc"]) = <<100 * train_correct, train_total>>
           /\ train_loss = Last(history["train_loss"])
           /\ train_acc = Last(history["train_acc"])
    /\ (epoch >= 1 /\ pc \in {"training", "done"}) =>
           /\ Last(history["test_loss"]) = <<test_total - test_correct, nTest>>
           /\ Last(history["test_acc"]) = <<100 * test_correct, test_total>>
           /\ test_loss = Last(history["test_loss"])
           /\ test_acc = Last(history["test_acc"])

C10_Witness ==
    /\ pc = "evaluating"
    /\ epoch = 1
    /\ history["train_loss"] = <<<<0, 2>>, <<1, 2>>>>
    /\ history["train_acc"] = <<<<200, 2>>, <<100, 2>>>>

====
